---- MODULE Spec2Model ----
(***************************************************************************)
(* The DNS resolution core of smtpd (dns.c): the request dispatcher        *)
(* dns_imsg, the asynchronous completions dns_dispatch_host / _ptr / _mx / *)
(* _mx_preference, the sub-lookup fan-out dns_lookup_host, and the DNS     *)
(* wire decoder (dname_expand and the unpack functions) the MX completions *)
(* run on the resolver's raw payload.                                      *)
(*                                                                         *)
(* C strings and wire buffers are sequences of byte values 0..255; C index *)
(* i of a buffer is element i + 1 of the sequence.                         *)
(***************************************************************************)
EXTENDS Integers, Sequences, FiniteSets, TLC

(***************************************************************************)
(* Bounds of the model.                                                    *)
(***************************************************************************)
\* number of requests the caller submits (reply tags 1..MaxReq)
MaxReq == 1
\* most addresses one getaddrinfo-style completion returns
MaxAddrs == 2

(***************************************************************************)
(* Constants of the program and of the headers it includes.                *)
(***************************************************************************)
HFIXEDSZ == 12
MAXDNAME == 255
HOST_NAME_MAX == 255
SMTPD_MAXDOMAINPARTSIZE == 255
T_A == 1
T_NS == 2
T_CNAME == 5
T_SOA == 6
T_PTR == 12
T_MX == 15
T_AAAA == 28
C_IN == 1
\* h_errno values of the resolver
NETDB_SUCCESS == 0
HOST_NOT_FOUND == 1
TRY_AGAIN == 2
NO_RECOVERY == 3
NO_DATA == 4
\* rcode values of the resolver
NOERROR == 0
SERVFAIL == 2
NXDOMAIN == 3
\* a non-zero getaddrinfo error
EAI_FAIL == -4
\* size_t arithmetic is unsigned: len - offset with offset > len wraps to a
\* value larger than any length the decoder compares it with.  TLC's integers
\* are 32 bits wide, so the modulus 2^64 is represented by 2^30, which is
\* still larger than every u16 length and every buffer of the model.
SIZE_MODULUS == 1073741824

DNS_OK == "DNS_OK"
DNS_RETRY == "DNS_RETRY"
DNS_EINVAL == "DNS_EINVAL"
DNS_ENONAME == "DNS_ENONAME"
DNS_ENOTFOUND == "DNS_ENOTFOUND"

IMSG_MTA_DNS_HOST == "IMSG_MTA_DNS_HOST"
IMSG_MTA_DNS_HOST_END == "IMSG_MTA_DNS_HOST_END"
IMSG_MTA_DNS_PTR == "IMSG_MTA_DNS_PTR"
IMSG_SMTP_DNS_PTR == "IMSG_SMTP_DNS_PTR"
IMSG_MTA_DNS_MX == "IMSG_MTA_DNS_MX"
IMSG_MTA_DNS_MX_PREFERENCE == "IMSG_MTA_DNS_MX_PREFERENCE"

(***************************************************************************)
(* Small helpers.                                                          *)
(***************************************************************************)
\* K applied to the value x: names an intermediate result
With(x, K(_)) == K(x)

Min(a, b) == IF a < b THEN a ELSE b
Max(a, b) == IF a < b THEN b ELSE a

\* a - b in size_t
SizeSub(a, b) == IF a >= b THEN a - b ELSE SIZE_MODULUS + a - b

\* tolower() on an ASCII code
ToLower(c) == IF c >= 65 /\ c <= 90 THEN c + 32 ELSE c

\* the C string held in a char array: the bytes before the first NUL
RECURSIVE CStr(_)
CStr(a) ==
    IF a = <<>> \/ Head(a) = 0 THEN <<>> ELSE <<Head(a)>> \o CStr(Tail(a))

\* strcasecmp(a, b) == 0
StrCaseEq(a, b) ==
    /\ Len(a) = Len(b)
    /\ \A i \in 1..Len(a) : ToLower(a[i]) = ToLower(b[i])

\* strncasecmp(pfx, s, Len(pfx)) == 0
StrNCaseEq(pfx, s) ==
    /\ Len(s) >= Len(pfx)
    /\ \A i \in 1..Len(pfx) : ToLower(pfx[i]) = ToLower(s[i])

\* strlcpy(dst, src, size): the string left in dst
Strlcpy(src, size) == SubSeq(src, 1, Min(Len(src), size - 1))

\* the suffix of s from C index k
Drop(s, k) == SubSeq(s, k + 1, Len(s))

\* strchr(s, c): the 1-based position of the first c in s, 0 if none
RECURSIVE StrChr(_, _, _)
StrChr(s, c, i) ==
    IF i > Len(s) THEN 0 ELSE IF s[i] = c THEN i ELSE StrChr(s, c, i + 1)

(***************************************************************************)
(* The wire cursor (struct unpack).  buf and len are the resolver's        *)
(* payload; junk is the value a read at an index >= len yields, which the  *)
(* C program leaves undefined and which each completion draws afresh.  hi   *)
(* is not a field of the program: it records the highest index of buf that *)
(* was read through the cursor, -1 before the first read.                  *)
(***************************************************************************)
NoErr == ""

unpack_init(buf, len, junk) ==
    [buf |-> buf, len |-> len, offset |-> 0, err |-> NoErr, junk |-> junk,
     hi |-> -1]

\* data[i]
ByteAt(data, len, junk, i) == IF i < len THEN data[i + 1] ELSE junk

\* return (-1) of dname_expand after reading up to index hi and following
\* the pointers jumps
DnameFail(hi, jumps) ==
    [res |-> -1, newoffset |-> 0, dst |-> <<>>, hi |-> hi, jumps |-> jumps]

\* a jump that leaves start where the name began
StartAfterJump_keep(start, ptr) == start

\* start after offset = start = ptr
StartAfterJump(start, ptr) == ptr

\* the for loop of dname_expand; st holds offset, start, end, res, dst, max
\* and, for the record, hi (the highest index read) and jumps (the pointers
\* followed: where each was read and its target)
RECURSIVE dname_loop(_, _, _, _)
dname_loop(data, len, junk, st) ==
    With(ByteAt(data, len, junk, st.offset), LAMBDA n :
    With(Max(st.hi, st.offset), LAMBDA hi :
    IF n = 0
    THEN [res |-> st.res + 1,
          newoffset |-> Max(st.end, st.offset + 1),
          dst |-> IF st.max # 0 THEN Append(st.dst, 0) ELSE st.dst,
          hi |-> hi, jumps |-> st.jumps]
    ELSE IF n >= 192
    THEN IF st.offset + 2 > len
         THEN DnameFail(hi, st.jumps)
         ELSE With(256 * (n - 192) + ByteAt(data, len, junk, st.offset + 1),
                   LAMBDA ptr :
              IF ptr >= st.start
              THEN DnameFail(Max(hi, st.offset + 1), st.jumps)
              ELSE dname_loop(data, len, junk,
                       [st EXCEPT !.end = Max(st.end, st.offset + 2),
                                  !.offset = ptr,
                                  !.start = StartAfterJump(st.start, ptr),
                                  !.hi = Max(hi, st.offset + 1),
                                  !.jumps = Append(st.jumps,
                                                [at |-> st.offset, to |-> ptr])]))
    ELSE IF st.offset + n + 1 > len
    THEN DnameFail(hi, st.jumps)
    ELSE With(Min(st.max, n + 1), LAMBDA count :
         dname_loop(data, len, junk,
             [st EXCEPT !.dst = st.dst \o
                            [i \in 1..count |->
                                ByteAt(data, len, junk, st.offset + i - 1)],
                        !.max = st.max - count,
                        !.res = st.res + n + 1,
                        !.offset = st.offset + n + 1,
                        !.end = Max(st.end, st.offset + n + 1),
                        !.hi = Max(hi, st.offset + count - 1)]))))

dname_expand(data, len, junk, offset, max) ==
    IF offset >= len
    THEN DnameFail(-1, <<>>)
    ELSE dname_loop(data, len, junk,
             [offset |-> offset, start |-> offset, end |-> offset,
              res |-> 0, dst |-> <<>>, max |-> max, hi |-> -1,
              jumps |-> <<>>])

unpack_data(p, n) ==
    IF p.err # NoErr
    THEN [ret |-> -1, p |-> p, data |-> <<>>]
    ELSE IF SizeSub(p.len, p.offset) < n
    THEN [ret |-> -1, p |-> [p EXCEPT !.err = "too short"], data |-> <<>>]
    ELSE [ret |-> 0,
          p |-> [p EXCEPT !.offset = p.offset + n,
                          !.hi = IF n > 0 THEN Max(p.hi, p.offset + n - 1)
                                 ELSE p.hi],
          data |-> [i \in 1..n |->
                        ByteAt(p.buf, p.len, p.junk, p.offset + i - 1)]]

\* val is ntohs of the two bytes read; 0 stands for the untouched *u16
unpack_u16(p) ==
    With(unpack_data(p, 2), LAMBDA r :
        [ret |-> r.ret, p |-> r.p,
         val |-> IF r.ret = 0 THEN 256 * r.data[1] + r.data[2] ELSE 0])

\* the 32-bit value is stored in fields nothing reads (rr_ttl, the SOA
\* counters), so only the cursor is returned
unpack_u32(p) ==
    With(unpack_data(p, 4), LAMBDA r : [ret |-> r.ret, p |-> r.p])

unpack_inaddr(p) ==
    With(unpack_data(p, 4), LAMBDA r : [ret |-> r.ret, p |-> r.p])

unpack_in6addr(p) ==
    With(unpack_data(p, 16), LAMBDA r : [ret |-> r.ret, p |-> r.p])

\* an unpack_dname that does not look at p->err first
unpack_dname_unchecked(p, max) ==
    With(dname_expand(p.buf, p.len, p.junk, p.offset, max), LAMBDA e :
         IF e.res = -1
         THEN [ret |-> -1,
               p |-> [p EXCEPT !.err = "bad domain name",
                               !.hi = Max(p.hi, e.hi)],
               dst |-> <<>>, jumps |-> e.jumps]
         ELSE [ret |-> 0,
               p |-> [p EXCEPT !.offset = e.newoffset,
                               !.hi = Max(p.hi, e.hi)],
               dst |-> e.dst, jumps |-> e.jumps])

\* jumps, for the record: the pointers dname_expand followed
unpack_dname(p, max) ==
    IF p.err # NoErr
    THEN [ret |-> -1, p |-> p, dst |-> <<>>, jumps |-> <<>>]
    ELSE With(dname_expand(p.buf, p.len, p.junk, p.offset, max), LAMBDA e :
         IF e.res = -1
         THEN [ret |-> -1,
               p |-> [p EXCEPT !.err = "bad domain name",
                               !.hi = Max(p.hi, e.hi)],
               dst |-> <<>>, jumps |-> e.jumps]
         ELSE IF e.res < 0 \/ e.res > MAXDNAME
         THEN [ret |-> -1,
               p |-> [p EXCEPT !.offset = e.newoffset,
                               !.err = "domain name too long",
                               !.hi = Max(p.hi, e.hi)],
               dst |-> e.dst, jumps |-> e.jumps]
         ELSE [ret |-> 0,
               p |-> [p EXCEPT !.offset = e.newoffset,
                               !.hi = Max(p.hi, e.hi)],
               dst |-> e.dst, jumps |-> e.jumps])

\* h carries the one header field the callers read
unpack_header(p) ==
    With(unpack_data(p, HFIXEDSZ), LAMBDA r :
        [ret |-> r.ret, p |-> r.p,
         ancount |-> IF r.ret = 0 THEN 256 * r.data[7] + r.data[8] ELSE 0])

unpack_query(p) ==
    With(unpack_u16(unpack_u16(unpack_dname(p, MAXDNAME).p).p).p, LAMBDA p3 :
        [ret |-> IF p3.err # NoErr THEN -1 ELSE 0, p |-> p3])

NoMx == [preference |-> 0, exchange |-> <<>>]

\* the switch of unpack_rr on the record type: the cursor after the body
\* and the MX fields it fills
unpack_rr_body(p, type, class, rdlen) ==
    IF type \in {T_CNAME, T_NS, T_PTR}
    THEN [p |-> unpack_dname(p, MAXDNAME).p, mx |-> NoMx]
    ELSE IF type = T_MX
    THEN With(unpack_u16(p), LAMBDA a :
         With(unpack_dname(a.p, MAXDNAME), LAMBDA b :
             [p |-> b.p, mx |-> [preference |-> a.val, exchange |-> b.dst]]))
    ELSE IF type = T_SOA
    THEN [p |-> unpack_u32(unpack_u32(unpack_u32(unpack_u32(unpack_u32(
                    unpack_dname(unpack_dname(p, MAXDNAME).p, MAXDNAME).p
                ).p).p).p).p).p,
          mx |-> NoMx]
    ELSE IF type = T_A /\ class = C_IN
    THEN [p |-> unpack_inaddr(p).p, mx |-> NoMx]
    ELSE IF type = T_AAAA /\ class = C_IN
    THEN [p |-> unpack_in6addr(p).p, mx |-> NoMx]
    ELSE [p |-> [p EXCEPT !.offset = p.offset + rdlen], mx |-> NoMx]

\* an unpack_rr that trusts the advertised rdlen
unpack_rr_rdata_nodlen(t, c, d) ==
    IF d.p.err # NoErr
    THEN [ret |-> -1, p |-> d.p, rr_type |-> 0, mx |-> NoMx,
          save_offset |-> -1]
    ELSE IF SizeSub(d.p.len, d.p.offset) < d.val
    THEN [ret |-> -1, p |-> [d.p EXCEPT !.err = "too short"],
          rr_type |-> t.val, mx |-> NoMx, save_offset |-> -1]
    ELSE With(unpack_rr_body(d.p, t.val, c.val, d.val), LAMBDA b :
         IF b.p.err # NoErr
         THEN [ret |-> -1, p |-> b.p, rr_type |-> t.val, mx |-> b.mx,
               save_offset |-> d.p.offset]
         ELSE [ret |-> 0, p |-> b.p, rr_type |-> t.val, mx |-> b.mx,
               save_offset |-> d.p.offset])

\* unpack_rr after its five header reads: t, c and d are the results of
\* reading rr_type, rr_class and rdlen; save_offset is the local of that
\* name, -1 when the function returns before setting it
unpack_rr_rdata(t, c, d) ==
    IF d.p.err # NoErr
    THEN [ret |-> -1, p |-> d.p, rr_type |-> 0, mx |-> NoMx,
          save_offset |-> -1]
    ELSE IF SizeSub(d.p.len, d.p.offset) < d.val
    THEN [ret |-> -1, p |-> [d.p EXCEPT !.err = "too short"],
          rr_type |-> t.val, mx |-> NoMx, save_offset |-> -1]
    ELSE With(unpack_rr_body(d.p, t.val, c.val, d.val), LAMBDA b :
         IF b.p.err # NoErr
         THEN [ret |-> -1, p |-> b.p, rr_type |-> t.val, mx |-> b.mx,
               save_offset |-> d.p.offset]
         ELSE IF b.p.offset - d.p.offset # d.val
         THEN [ret |-> -1, p |-> [b.p EXCEPT !.err = "bad dlen"],
               rr_type |-> t.val, mx |-> b.mx, save_offset |-> d.p.offset]
         ELSE [ret |-> 0, p |-> b.p, rr_type |-> t.val, mx |-> b.mx,
               save_offset |-> d.p.offset])

unpack_rr(p) ==
    With(unpack_u16(unpack_dname(p, MAXDNAME).p), LAMBDA t :
    With(unpack_u16(t.p), LAMBDA c :
    With(unpack_u16(unpack_u32(c.p).p), LAMBDA d :
        unpack_rr_rdata(t, c, d))))

\* dname[i] of a wire-form name held in a char array
DnAt(d, i) == IF i + 1 <= Len(d) THEN d[i + 1] ELSE 0

\* the for loop of print_dname; at is the read position in dname
RECURSIVE print_loop(_, _, _, _)
print_loop(d, at, left, out) ==
    With(DnAt(d, at), LAMBDA n :
    IF n = 0 \/ left = 0
    THEN out
    ELSE With(IF n < left - 1 THEN n ELSE left - 1, LAMBDA count :
         With([i \in 1..count |-> DnAt(d, at + i)], LAMBDA lab :
            IF left - count # 0
            THEN print_loop(d, at + n + 1, left - count - 1,
                            (out \o lab) \o <<46>>)
            ELSE print_loop(d, at + n + 1, left - count, out \o lab))))

\* the char array print_dname leaves in buf (without the final NUL)
print_dname(dname, max) ==
    IF DnAt(dname, 0) = 0
    THEN Strlcpy(<<46>>, max)
    ELSE print_loop(dname, 0, max - 1, <<>>)

\* print_dname(exchange, buf, sizeof buf); buf[strlen(buf) - 1] = '\0':
\* the string the MX completions hand on.  With strlen(buf) = 0 the store
\* lands before buf and buf stays the empty string.
MxHostName(exchange) ==
    With(CStr(print_dname(exchange, 512)), LAMBDA s :
         IF Len(s) = 0 THEN s ELSE SubSeq(s, 1, Len(s) - 1))

(***************************************************************************)
(* Strings of the model (ASCII codes).                                     *)
(***************************************************************************)
\* "x"
DomX == <<120>>
\* "a.x"
HostA == <<97, 46, 120>>
\* "B.x"
HostB == <<66, 46, 120>>
\* "b.x"
HostBalt == <<98, 46, 120>>
\* "c.x"
HostC == <<99, 46, 120>>
\* "1.2.3.4"
NumV4 == <<49, 46, 50, 46, 51, 46, 52>>
\* "::1"
NumV6 == <<58, 58, 49>>
\* "[1.2.3.4]"
LitV4 == <<91>> \o NumV4 \o <<93>>
\* "[IPv6:::1]"
LitV6 == <<91, 73, 80, 118, 54, 58>> \o NumV6 \o <<93>>
\* "[ipV6:::1]"
LitV6lower == <<91, 105, 112, 86, 54, 58>> \o NumV6 \o <<93>>
\* "[x]"
BrX == <<91, 120, 93>>
\* "[1.2.3.4"
BrOpen == <<91>> \o NumV4
\* "[IPv6:1.2.3.4]"
BrV6v4 == <<91, 73, 80, 118, 54, 58>> \o NumV4 \o <<93>>
\* "[IPv6:"
PfxIPv6 == <<91, 73, 80, 118, 54, 58>>

(***************************************************************************)
(* The resolver's side: the responses res_query_async can deliver.  A      *)
(* response is described by its question name and its answer records, and  *)
(* encoded to wire bytes as a name server encodes it; cut > 0 truncates the *)
(* payload to its first cut bytes.                                         *)
(***************************************************************************)
U16(v) == <<v \div 256, v % 256>>

\* the labels of a dotted name, each prefixed by its length
RECURSIVE EncLabels(_)
EncLabels(host) ==
    IF host = <<>>
    THEN <<>>
    ELSE LET dot == StrChr(host, 46, 1)
             lab == IF dot = 0 THEN host ELSE SubSeq(host, 1, dot - 1)
             rest == IF dot = 0 THEN <<>> ELSE Drop(host, dot)
         IN (<<Len(lab)>> \o lab) \o EncLabels(rest)

\* an uncompressed name
EncName(host) == EncLabels(host) \o <<0>>

\* a name whose suffix qname is replaced by a pointer to the question (offset 12)
EncNameComp(host, qname) ==
    EncLabels(SubSeq(host, 1, Len(host) - Len(qname) - 1)) \o <<192, HFIXEDSZ>>

EncRData(rr, qname) ==
    IF rr.type = T_MX
    THEN U16(rr.preference)
             \o (IF rr.comp THEN EncNameComp(rr.host, qname) ELSE EncName(rr.host))
    ELSE IF rr.type = T_CNAME
    THEN EncName(rr.host)
    ELSE <<192, 0, 2, 1>>

EncRR(rr, qname) ==
    LET rdata == EncRData(rr, qname) IN
    (((<<192, HFIXEDSZ>> \o U16(rr.type)) \o U16(C_IN)) \o <<0, 0, 0, 60>>)
        \o U16(Len(rdata)) \o rdata

RECURSIVE EncRRs(_, _)
EncRRs(rrs, qname) ==
    IF rrs = <<>> THEN <<>> ELSE EncRR(Head(rrs), qname) \o EncRRs(Tail(rrs), qname)

EncResponse(resp) ==
    LET full == (((<<0, 1, 129, 128>> \o U16(1)) \o U16(Len(resp.answers)))
                    \o <<0, 0, 0, 0>>)
                    \o ((EncName(resp.qname) \o U16(T_MX)) \o U16(C_IN))
                    \o EncRRs(resp.answers, resp.qname)
    IN IF resp.cut > 0 THEN SubSeq(full, 1, resp.cut) ELSE full

Mx(pref, host, comp) ==
    [type |-> T_MX, preference |-> pref, host |-> host, comp |-> comp]
OtherRR(type, host) ==
    [type |-> type, preference |-> 0, host |-> host, comp |-> FALSE]

\* the responses of the model: 1..4 are complete, 5..7 are truncated
Responses ==
    << [qname |-> DomX, cut |-> 0,
        answers |-> <<Mx(10, HostA, TRUE), Mx(20, HostB, FALSE)>>],
       [qname |-> DomX, cut |-> 0, answers |-> <<>>],
       [qname |-> DomX, cut |-> 0,
        answers |-> <<OtherRR(T_A, DomX), OtherRR(T_CNAME, HostC),
                      Mx(5, HostA, FALSE)>>],
       [qname |-> DomX, cut |-> 0,
        answers |-> <<Mx(30, HostBalt, TRUE), Mx(40, HostB, TRUE)>>],
       [qname |-> DomX, cut |-> 5,
        answers |-> <<Mx(10, HostA, TRUE), Mx(20, HostB, FALSE)>>],
       [qname |-> DomX, cut |-> 40,
        answers |-> <<Mx(10, HostA, TRUE), Mx(20, HostB, FALSE)>>],
       [qname |-> DomX, cut |-> 14,
        answers |-> <<Mx(10, HostA, TRUE), Mx(20, HostB, FALSE)>>] >>

RespIds == 1..Len(Responses)
WellFormed(k) == Responses[k].cut = 0

\* the values a read past the end of the payload may yield
JunkBytes == {0, 1, 192}

(***************************************************************************)
(* The answer walks of the two MX completions.                             *)
(***************************************************************************)
\* the for loop of dns_dispatch_mx: the (host, preference) pairs handed to
\* dns_lookup_host, in order
RECURSIVE mx_walk(_, _, _)
mx_walk(p, ancount, acc) ==
    IF ancount = 0
    THEN acc
    ELSE With(unpack_rr(p), LAMBDA r :
         IF r.ret = -1
         THEN acc
         ELSE IF r.rr_type # T_MX
         THEN mx_walk(r.p, ancount - 1, acc)
         ELSE mx_walk(r.p, ancount - 1,
                  Append(acc, [host |-> MxHostName(r.mx.exchange),
                               preference |-> r.mx.preference])))

\* a walk without the break on a match: the last matching record wins
RECURSIVE mxpref_walk_last(_, _, _)
mxpref_walk_last(p, ancount, name) ==
    IF ancount = 0
    THEN [error |-> DNS_ENOTFOUND, preference |-> 0]
    ELSE With(unpack_rr(p), LAMBDA r :
         IF r.ret = -1
         THEN [error |-> DNS_ENOTFOUND, preference |-> 0]
         ELSE With(mxpref_walk_last(r.p, ancount - 1, name), LAMBDA rest :
              IF rest.error = DNS_OK
              THEN rest
              ELSE IF r.rr_type = T_MX
                      /\ StrCaseEq(name, MxHostName(r.mx.exchange))
              THEN [error |-> DNS_OK, preference |-> r.mx.preference]
              ELSE rest))

\* the for loop of dns_dispatch_mx_preference: error and rr.rr.mx.preference
\* when the loop is left
RECURSIVE mxpref_walk(_, _, _)
mxpref_walk(p, ancount, name) ==
    IF ancount = 0
    THEN [error |-> DNS_ENOTFOUND, preference |-> 0]
    ELSE With(unpack_rr(p), LAMBDA r :
         IF r.ret = -1
         THEN [error |-> DNS_ENOTFOUND, preference |-> 0]
         ELSE IF r.rr_type # T_MX
         THEN mxpref_walk(r.p, ancount - 1, name)
         ELSE IF StrCaseEq(name, MxHostName(r.mx.exchange))
         THEN [error |-> DNS_OK, preference |-> r.mx.preference]
         ELSE mxpref_walk(r.p, ancount - 1, name))

(***************************************************************************)
(* The address-literal recognizer.  getaddrinfo(AI_NUMERICHOST) is libc:   *)
(* it yields an address exactly for the numeric strings of the requested   *)
(* family (any family when hints.ai_family is left 0).                     *)
(***************************************************************************)
NumericV4 == {NumV4}
NumericV6 == {NumV6}

getaddrinfo_numeric(buf, i6) ==
    IF i6 THEN buf \in NumericV6 ELSE buf \in NumericV4 \cup NumericV6

\* a recognizer that compares the "[IPv6:" prefix with strncmp
domainname_is_addr_strncmp(s) ==
    IF s = <<>> \/ s[1] # 91
    THEN [ret |-> 0, sa |-> <<>>]
    ELSE LET i6 == Len(s) >= 6 /\ SubSeq(s, 1, 6) = PfxIPv6
             rest == Drop(s, IF i6 THEN 6 ELSE 1)
             l == Len(rest)
             buf == Strlcpy(rest, SMTPD_MAXDOMAINPARTSIZE)
         IN IF l >= SMTPD_MAXDOMAINPARTSIZE \/ l = 0 \/ buf[l] # 93
            THEN [ret |-> 0, sa |-> <<>>]
            ELSE LET num == SubSeq(buf, 1, l - 1) IN
                 IF getaddrinfo_numeric(num, i6)
                 THEN [ret |-> 1, sa |-> num]
                 ELSE [ret |-> 0, sa |-> <<>>]

\* [ret |-> 0 or 1, sa |-> the address stored through sa]
domainname_is_addr(s) ==
    IF s = <<>> \/ s[1] # 91
    THEN [ret |-> 0, sa |-> <<>>]
    ELSE LET i6 == StrNCaseEq(PfxIPv6, s)
             rest == Drop(s, IF i6 THEN 6 ELSE 1)
             l == Len(rest)
             buf == Strlcpy(rest, SMTPD_MAXDOMAINPARTSIZE)
         IN IF l >= SMTPD_MAXDOMAINPARTSIZE \/ l = 0 \/ buf[l] # 93
            THEN [ret |-> 0, sa |-> <<>>]
            ELSE LET num == SubSeq(buf, 1, l - 1) IN
                 IF getaddrinfo_numeric(num, i6)
                 THEN [ret |-> 1, sa |-> num]
                 ELSE [ret |-> 0, sa |-> <<>>]

(***************************************************************************)
(* Sessions, sub-lookups and messages.                                     *)
(***************************************************************************)
Reqs == 1..MaxReq

\* session[r]  struct dns_session of the request with reqid r; mem is
\*             "none" before dns_imsg allocates it, "live" until free(s)
\* lookups[r]  the struct dns_lookup objects allocated for the session, in
\*             allocation order; done after dns_dispatch_host freed one,
\*             addrs the number of addresses its completion was given
\* pending[r]  the callback event_asr_run holds for the session's own query
\* out[r]      the messages sent to s->p with reqid r, in order
\* hist[r]     what the resolver was asked and what it delivered: the query
\*             submitted for the request itself ("failed" when the resolver
\*             returned no handle) with the name queried, and the h_errno (or
\*             gai errno), rcode and response of its completion
\*
\* cur         a wire cursor (struct unpack) the decoder is run on by itself,
\*             one decode function at a time
\* last        the last decode function applied to cur: its name, its return
\*             value, the cursor before the call, and for unpack_dname the
\*             pointers followed, for unpack_rr its save_offset
VARIABLES session, lookups, pending, out, hist, cur, last

svars == <<session, lookups, pending, out, hist>>
dvars == <<cur, last>>
vars == <<session, lookups, pending, out, hist, cur, last>>

\* no cursor is under examination
NoCursor == unpack_init(<<>>, 0, 0)
NoOp == [op |-> "none", ret |-> 0, before |-> NoCursor, jumps |-> <<>>,
         save_offset |-> -1, n |-> 0]

NoSession ==
    [mem |-> "none", reqid |-> 0, type |-> "", name |-> <<>>, mxfound |-> 0,
     error |-> 0, refcount |-> 0]

NoHist ==
    [submit |-> "none", qname |-> <<>>, h_errno |-> 0, rcode |-> 0, resp |-> 0]

\* the request strings of the model
HostArgs == {HostA, LitV4, LitV6}
MxDomains == {DomX, LitV4, LitV6, LitV6lower, BrX, BrOpen, BrV6v4}
MxCandidates == {HostA, HostBalt, HostC}
PtrNames == {HostA}

\* what res_query_async can report with response k: an error h_errno with
\* any rcode, or what it derives from a NOERROR response: NO_DATA when the
\* response has no answer, success in any case
AsrErrnos(k) ==
    ({HOST_NOT_FOUND, TRY_AGAIN, NO_RECOVERY} \X {NOERROR, SERVFAIL, NXDOMAIN})
        \cup {<<NETDB_SUCCESS, NOERROR>>}
        \cup (IF Responses[k].answers = <<>> THEN {<<NO_DATA, NOERROR>>} ELSE {})

Init ==
    /\ session = [r \in Reqs |-> NoSession]
    /\ lookups = [r \in Reqs |-> <<>>]
    /\ pending = [r \in Reqs |-> "none"]
    /\ out = [r \in Reqs |-> <<>>]
    /\ hist = [r \in Reqs |-> NoHist]
    /\ cur = NoCursor
    /\ last = NoOp

\* xcalloc + s->type, s->reqid of dns_imsg
NewSession(r, type) ==
    [NoSession EXCEPT !.mem = "live", !.type = type, !.reqid = r]

\* requests arrive in the order of their reply tags
CanArrive(r) ==
    /\ session[r].mem = "none"
    /\ IF r = 1 THEN TRUE ELSE session[r - 1].mem # "none"

MsgHost(id, sa, preference) ==
    [type |-> IMSG_MTA_DNS_HOST, id |-> id, sockaddr |-> sa,
     preference |-> preference]
MsgHostEnd(id, status) ==
    [type |-> IMSG_MTA_DNS_HOST_END, id |-> id, status |-> status]
\* a PTR or MX preference reply without / with its optional field
MsgStatus(type, id, status) == [type |-> type, id |-> id, status |-> status]
MsgPtrName(type, id, status, name) ==
    [type |-> type, id |-> id, status |-> status, name |-> name]
MsgPreference(id, status, preference) ==
    [type |-> IMSG_MTA_DNS_MX_PREFERENCE, id |-> id, status |-> status,
     preference |-> preference]

\* the host string dns_lookup_host passes to getaddrinfo_async
LookupHostName(host) ==
    IF host # <<>> /\ host[1] = 91
    THEN LET h == IF StrNCaseEq(PfxIPv6, host) THEN Drop(host, 6)
                  ELSE Drop(host, 1)
             hostcopy == Strlcpy(h, HOST_NAME_MAX + 1)
             q == StrChr(hostcopy, 93, 1)
         IN IF q # 0 THEN SubSeq(hostcopy, 1, q - 1) ELSE hostcopy
    ELSE host

\* a dns_lookup_host that leaves s->refcount alone
dns_lookup_host_norefcount(sl, host, preference) ==
    [s |-> sl.s,
     l |-> Append(sl.l, [host |-> LookupHostName(host),
                         preference |-> preference, done |-> FALSE,
                         addrs |-> 0])]

\* dns_lookup_host on the pair sl = [s |-> session, l |-> its lookups]
dns_lookup_host(sl, host, preference) ==
    [s |-> [sl.s EXCEPT !.refcount = sl.s.refcount + 1],
     l |-> Append(sl.l, [host |-> LookupHostName(host),
                         preference |-> preference, done |-> FALSE,
                         addrs |-> 0])]

\* dns_lookup_host for each MX record of the walk, in order
RECURSIVE lookup_each(_, _)
lookup_each(sl, mxs) ==
    IF mxs = <<>>
    THEN sl
    ELSE lookup_each(dns_lookup_host(sl, Head(mxs).host, Head(mxs).preference),
                     Tail(mxs))

\* case IMSG_MTA_DNS_HOST of dns_imsg
ImsgHost(r, host) ==
    /\ CanArrive(r)
    /\ UNCHANGED dvars
    /\ LET sl == dns_lookup_host([s |-> NewSession(r, IMSG_MTA_DNS_HOST),
                                  l |-> <<>>], host, -1)
       IN /\ session' = [session EXCEPT ![r] = sl.s]
          /\ lookups' = [lookups EXCEPT ![r] = sl.l]
    /\ UNCHANGED <<pending, out, hist>>

\* case IMSG_MTA_DNS_PTR / IMSG_SMTP_DNS_PTR of dns_imsg
ImsgPtr(r, type) ==
    /\ CanArrive(r)
    /\ UNCHANGED dvars
    /\ session' = [session EXCEPT ![r] = NewSession(r, type)]
    /\ pending' = [pending EXCEPT ![r] = "dns_dispatch_ptr"]
    /\ hist' = [hist EXCEPT ![r].submit = "getnameinfo_async"]
    /\ UNCHANGED <<lookups, out>>

\* case IMSG_MTA_DNS_MX of dns_imsg; as is FALSE when res_query_async
\* returns NULL
ImsgMx(r, domain, as) ==
    /\ CanArrive(r)
    /\ UNCHANGED dvars
    /\ LET s == [NewSession(r, IMSG_MTA_DNS_MX) EXCEPT
                     !.name = Strlcpy(domain, HOST_NAME_MAX + 1)]
           lit == domainname_is_addr(domain)
       IN IF lit.ret = 1
          THEN /\ out' = [out EXCEPT ![r] =
                              <<MsgHost(s.reqid, lit.sa, -1),
                                MsgHostEnd(s.reqid, DNS_OK)>>]
               /\ session' = [session EXCEPT ![r] = [s EXCEPT !.mem = "freed"]]
               /\ UNCHANGED <<pending, hist>>
          ELSE IF ~as
          THEN /\ out' = [out EXCEPT ![r] = <<MsgHostEnd(s.reqid, DNS_EINVAL)>>]
               /\ session' = [session EXCEPT ![r] = [s EXCEPT !.mem = "freed"]]
               /\ hist' = [hist EXCEPT ![r].submit = "failed",
                                       ![r].qname = s.name]
               /\ UNCHANGED pending
          ELSE /\ session' = [session EXCEPT ![r] = s]
               /\ pending' = [pending EXCEPT ![r] = "dns_dispatch_mx"]
               /\ hist' = [hist EXCEPT ![r].submit = "res_query_async",
                                       ![r].qname = s.name]
               /\ UNCHANGED out
    /\ UNCHANGED lookups

\* case IMSG_MTA_DNS_MX_PREFERENCE of dns_imsg; the domain only goes to the
\* resolver, the session keeps the candidate mx
ImsgMxPreference(r, mx, as) ==
    /\ CanArrive(r)
    /\ UNCHANGED dvars
    /\ LET s == [NewSession(r, IMSG_MTA_DNS_MX_PREFERENCE) EXCEPT
                     !.name = Strlcpy(mx, HOST_NAME_MAX + 1)]
       IN IF ~as
          THEN /\ out' = [out EXCEPT ![r] =
                              <<MsgStatus(IMSG_MTA_DNS_MX_PREFERENCE,
                                          s.reqid, DNS_ENOTFOUND)>>]
               /\ session' = [session EXCEPT ![r] = [s EXCEPT !.mem = "freed"]]
               /\ hist' = [hist EXCEPT ![r].submit = "failed"]
               /\ UNCHANGED pending
          ELSE /\ session' = [session EXCEPT ![r] = s]
               /\ pending' = [pending EXCEPT ![r] = "dns_dispatch_mx_preference"]
               /\ hist' = [hist EXCEPT ![r].submit = "res_query_async"]
               /\ UNCHANGED out
    /\ UNCHANGED lookups

\* a completion that takes every lookup for the last one
LastLookup_always(refcount) == TRUE

\* --s->refcount is zero
LastLookup(refcount) == refcount - 1 = 0

\* a terminator that ignores mxfound
HostEndStatus_always_ok(mxfound) == DNS_OK

\* s->mxfound ? DNS_OK : DNS_ENOTFOUND
HostEndStatus(mxfound) == IF mxfound # 0 THEN DNS_OK ELSE DNS_ENOTFOUND

\* a count that every completion starts afresh
MxFoundAfter_last(mxfound, n) == n

\* s->mxfound after the for loop of dns_dispatch_host over n addresses
MxFoundAfter(mxfound, n) == mxfound + n

\* messages that carry preference 0 whatever the lookup's preference
HostMsgs_pref0(id, lookup, n) ==
    [k \in 1..n |-> MsgHost(id, [host |-> lookup.host, n |-> k], 0)]

\* the messages of the for loop of dns_dispatch_host over n addresses
HostMsgs(id, lookup, n) ==
    [k \in 1..n |->
        MsgHost(id, [host |-> lookup.host, n |-> k], lookup.preference)]

\* dns_dispatch_host for lookup i of session r: the resolver returns n
\* addresses and ar_gai_errno gai
dns_dispatch_host(r, i, n, gai) ==
    /\ i \in 1..Len(lookups[r])
    /\ UNCHANGED dvars
    /\ ~lookups[r][i].done
    /\ LET s == session[r]
           s1 == [s EXCEPT !.mxfound = MxFoundAfter(s.mxfound, n),
                           !.error = IF gai # 0 THEN gai ELSE s.error,
                           !.refcount = s.refcount - 1]
           msgs == HostMsgs(s.reqid, lookups[r][i], n)
       IN /\ lookups' = [lookups EXCEPT ![r][i].done = TRUE,
                                        ![r][i].addrs = n]
          /\ IF ~LastLookup(s.refcount)
             THEN /\ session' = [session EXCEPT ![r] = s1]
                  /\ out' = [out EXCEPT ![r] = out[r] \o msgs]
             ELSE /\ session' = [session EXCEPT ![r] = [s1 EXCEPT !.mem = "freed"]]
                  /\ out' = [out EXCEPT ![r] =
                                Append(out[r] \o msgs,
                                       MsgHostEnd(s.reqid,
                                                  HostEndStatus(s1.mxfound)))]
    /\ UNCHANGED <<pending, hist>>

\* a PTR reply that ignores ar_gai_errno
PtrStatus_always_ok(gai) == DNS_OK

\* ar->ar_gai_errno ? DNS_ENOTFOUND : DNS_OK
PtrStatus(gai) == IF gai # 0 THEN DNS_ENOTFOUND ELSE DNS_OK

\* dns_dispatch_ptr: getnameinfo_async wrote name into s->name when gai = 0
dns_dispatch_ptr(r, gai, name) ==
    /\ pending[r] = "dns_dispatch_ptr"
    /\ UNCHANGED dvars
    /\ LET s == session[r]
       IN /\ out' = [out EXCEPT ![r] =
                        Append(out[r],
                               IF gai = 0
                               THEN MsgPtrName(s.type, s.reqid, PtrStatus(gai),
                                               name)
                               ELSE MsgStatus(s.type, s.reqid, PtrStatus(gai)))]
          /\ session' = [session EXCEPT ![r] =
                            [s EXCEPT !.mem = "freed",
                                      !.name = IF gai = 0 THEN name ELSE s.name]]
    /\ pending' = [pending EXCEPT ![r] = "none"]
    /\ hist' = [hist EXCEPT ![r].h_errno = gai]
    /\ UNCHANGED lookups

\* an error mapping without the NO_RECOVERY arm
MxErrorStatus_no_einval(h_errno, rcode) ==
    IF rcode = NXDOMAIN THEN DNS_ENONAME ELSE DNS_RETRY

\* the status dns_dispatch_mx sends for a terminating resolver error
MxErrorStatus(h_errno, rcode) ==
    IF rcode = NXDOMAIN THEN DNS_ENONAME
    ELSE IF h_errno = NO_RECOVERY THEN DNS_EINVAL
    ELSE DNS_RETRY

\* ar->ar_h_errno && ar->ar_h_errno != NO_DATA
MxTerminatingError(h_errno) == h_errno # 0 /\ h_errno # NO_DATA

\* a fan-out without the fallback to the host
MxFanout_no_fallback(sl, mxs) == lookup_each(sl, mxs)

\* the sub-lookups dns_dispatch_mx schedules after the walk found mxs
MxFanout(sl, mxs) ==
    IF Len(mxs) = 0
    THEN dns_lookup_host(sl, sl.s.name, 0)
    ELSE lookup_each(sl, mxs)

\* unpack_init, unpack_header, unpack_query and the walk of dns_dispatch_mx:
\* ret is -1 when the function returns before the walk
MxDecode(data, junk) ==
    With(unpack_header(unpack_init(data, Len(data), junk)), LAMBDA h :
    With(unpack_query(h.p), LAMBDA q :
        IF h.ret = -1 \/ q.ret = -1
        THEN [ret |-> -1, mxs |-> <<>>]
        ELSE [ret |-> 0, mxs |-> mx_walk(q.p, h.ancount, <<>>)]))

\* MxDecode of every response of the model, evaluated once
MxDecoded ==
    [k \in RespIds, junk \in JunkBytes |->
        MxDecode(EncResponse(Responses[k]), junk)]

\* dns_dispatch_mx: the resolver delivers h_errno, rcode and response k
dns_dispatch_mx(r, h_errno, rcode, k, junk) ==
    /\ pending[r] = "dns_dispatch_mx"
    /\ UNCHANGED dvars
    /\ pending' = [pending EXCEPT ![r] = "none"]
    /\ LET s == session[r] IN
       IF MxTerminatingError(h_errno)
       THEN /\ out' = [out EXCEPT ![r] =
                          Append(out[r], MsgHostEnd(s.reqid,
                                     MxErrorStatus(h_errno, rcode)))]
            /\ session' = [session EXCEPT ![r] = [s EXCEPT !.mem = "freed"]]
            /\ hist' = [hist EXCEPT ![r].h_errno = h_errno, ![r].rcode = rcode]
            /\ UNCHANGED lookups
       ELSE /\ hist' = [hist EXCEPT ![r].h_errno = h_errno,
                                    ![r].rcode = rcode, ![r].resp = k]
            /\ With(MxDecoded[k, junk], LAMBDA d :
                  IF d.ret = -1
                  THEN UNCHANGED <<session, lookups, out>>
                  ELSE With(MxFanout([s |-> s, l |-> lookups[r]], d.mxs),
                            LAMBDA sl :
                          /\ session' = [session EXCEPT ![r] = sl.s]
                          /\ lookups' = [lookups EXCEPT ![r] = sl.l]
                          /\ UNCHANGED out))

\* the mapping of dns_dispatch_mx used for the preference reply: NO_DATA is
\* not an invalid answer
MxPrefErrorStatus_as_mx(h_errno, rcode) ==
    IF rcode = NXDOMAIN THEN DNS_ENONAME
    ELSE IF h_errno = NO_RECOVERY THEN DNS_EINVAL
    ELSE DNS_RETRY

\* the error dns_dispatch_mx_preference derives from a resolver error
MxPrefErrorStatus(h_errno, rcode) ==
    IF rcode = NXDOMAIN THEN DNS_ENONAME
    ELSE IF h_errno = NO_RECOVERY \/ h_errno = NO_DATA THEN DNS_EINVAL
    ELSE DNS_RETRY

\* error and rr.rr.mx.preference after the else branch of the completion
\* of an MX preference query
MxPrefDecode(data, junk, name) ==
    With(unpack_header(unpack_init(data, Len(data), junk)), LAMBDA h :
    With(unpack_query(h.p), LAMBDA q :
        IF h.ret # -1 /\ q.ret # -1
        THEN mxpref_walk(q.p, h.ancount, name)
        ELSE [error |-> DNS_ENOTFOUND, preference |-> 0]))

\* MxPrefDecode of every response of the model for every candidate
MxPrefDecoded ==
    [k \in RespIds, junk \in JunkBytes, name \in MxCandidates |->
        MxPrefDecode(EncResponse(Responses[k]), junk, name)]

\* dns_dispatch_mx_preference
dns_dispatch_mx_preference(r, h_errno, rcode, k, junk) ==
    /\ pending[r] = "dns_dispatch_mx_preference"
    /\ UNCHANGED dvars
    /\ pending' = [pending EXCEPT ![r] = "none"]
    /\ LET s == session[r]
           res == IF h_errno # 0
                  THEN [error |-> MxPrefErrorStatus(h_errno, rcode),
                        preference |-> 0]
                  ELSE MxPrefDecoded[k, junk, s.name]
       IN /\ out' = [out EXCEPT ![r] =
                        Append(out[r],
                               IF res.error = DNS_OK
                               THEN MsgPreference(s.reqid, res.error,
                                                  res.preference)
                               ELSE MsgStatus(IMSG_MTA_DNS_MX_PREFERENCE,
                                              s.reqid, res.error))]
          /\ session' = [session EXCEPT ![r] = [s EXCEPT !.mem = "freed"]]
          /\ hist' = [hist EXCEPT ![r].h_errno = h_errno, ![r].rcode = rcode,
                                  ![r].resp = IF h_errno # 0 THEN 0 ELSE k]
    /\ UNCHANGED lookups

\* what getaddrinfo_async can report: addresses and no error, or none and
\* an error
GaiResults == {<<n, 0>> : n \in 1..MaxAddrs} \cup {<<0, EAI_FAIL>>}

Next ==
    \/ \E r \in Reqs, host \in HostArgs : ImsgHost(r, host)
    \/ \E r \in Reqs, type \in {IMSG_MTA_DNS_PTR, IMSG_SMTP_DNS_PTR} :
           ImsgPtr(r, type)
    \/ \E r \in Reqs, domain \in MxDomains, as \in BOOLEAN :
           ImsgMx(r, domain, as)
    \/ \E r \in Reqs, mx \in MxCandidates, as \in BOOLEAN :
           ImsgMxPreference(r, mx, as)
    \/ \E r \in Reqs, i \in 1..3, res \in GaiResults :
           dns_dispatch_host(r, i, res[1], res[2])
    \/ \E r \in Reqs, gai \in {0, EAI_FAIL}, name \in PtrNames :
           dns_dispatch_ptr(r, gai, name)
    \/ \E r \in Reqs, k \in RespIds, junk \in JunkBytes :
           \E e \in AsrErrnos(k) : dns_dispatch_mx(r, e[1], e[2], k, junk)
    \/ \E r \in Reqs, k \in RespIds, junk \in JunkBytes :
           \E e \in AsrErrnos(k) :
               dns_dispatch_mx_preference(r, e[1], e[2], k, junk)

Spec == Init /\ [][Next]_vars

(***************************************************************************)
(* The decoder on its own: a cursor over one of the payloads below, and    *)
(* the unpack functions applied to it one after the other, in any order.   *)
(***************************************************************************)
\* number of decode calls made on one cursor
MaxOps == 3

\* one resource record owned by "x": type, class, ttl 60, rdlen and rdata
WireRR(type, class, rdlen, rdata) ==
    ((((<<1, 120, 0>> \o U16(type)) \o U16(class)) \o <<0, 0, 0, 60>>)
        \o U16(rdlen)) \o rdata

\* the payloads the cursor is run over
WireBuffers ==
    << \* a complete response: header, question, MX 10 a.x (compressed),
       \* MX 20 B.x
       EncResponse(Responses[1]),
       \* MX 10 a.x with rdlen 7, the length of its rdata
       WireRR(T_MX, C_IN, 7, <<0, 10, 1, 97, 1, 120, 0>>),
       \* the same record advertising rdlen 8, with a byte to spare
       WireRR(T_MX, C_IN, 8, <<0, 10, 1, 97, 1, 120, 0, 0>>),
       \* A 1.2.3.4, and an A record advertising 6 bytes
       WireRR(T_A, C_IN, 4, <<1, 2, 3, 4>>),
       WireRR(T_A, C_IN, 6, <<1, 2, 3, 4, 5, 6>>),
       \* an A record of another class and a record of an unknown type
       WireRR(T_A, 3, 2, <<7, 7>>),
       WireRR(99, C_IN, 3, <<7, 7, 7>>),
       \* AAAA ::1, a CNAME to "a.x", an NS to "a.x" advertising one byte
       \* less than its name, a PTR to "a" under the owner name
       WireRR(T_AAAA, C_IN, 16,
              <<0, 0, 0, 0, 0, 0, 0, 0, 0, 0, 0, 0, 0, 0, 0, 1>>),
       WireRR(T_CNAME, C_IN, 5, <<1, 97, 1, 120, 0>>),
       WireRR(T_NS, C_IN, 4, <<1, 97, 1, 120, 0>>),
       WireRR(T_PTR, C_IN, 4, <<1, 97, 192, 0>>),
       \* SOA x. x. with its five counters
       WireRR(T_SOA, C_IN, 26,
              <<1, 120, 0, 1, 120, 0, 0, 0, 0, 1, 0, 0, 0, 2, 0, 0, 0, 3,
                0, 0, 0, 4, 0, 0, 0, 5>>),
       \* the name "x", and the label "x" with no terminator behind it
       <<1, 120, 0>>,
       <<1, 120>>,
       \* "x" at 0, a pointer to 0 at 3, "a" and a pointer to 3 at 5
       <<1, 120, 0, 192, 0, 1, 97, 192, 3>>,
       \* a pointer to itself, a pointer forward
       <<192, 0>>,
       <<192, 2, 0>>,
       \* a forward pointer at 0, the root at 2, a pointer to 0 at 3
       <<192, 2, 0, 192, 0>>,
       \* a label of 5 bytes at 0 that covers the pointer to 0 at 2
       <<5, 120, 192, 0, 121, 122, 0>>,
       \* a pointer cut after its first byte
       <<1, 120, 192>> >>

DecInit ==
    /\ session = [r \in Reqs |-> NoSession]
    /\ lookups = [r \in Reqs |-> <<>>]
    /\ pending = [r \in Reqs |-> "none"]
    /\ out = [r \in Reqs |-> <<>>]
    /\ hist = [r \in Reqs |-> NoHist]
    /\ \E b \in 1..Len(WireBuffers), junk \in JunkBytes :
           cur = unpack_init(WireBuffers[b], Len(WireBuffers[b]), junk)
    /\ last = NoOp

\* the record of a call of op on cur that returned ret
Called(op, ret, jumps, save_offset) ==
    [op |-> op, ret |-> ret, before |-> cur, jumps |-> jumps,
     save_offset |-> save_offset, n |-> last.n + 1]

call_unpack_data(n) ==
    /\ last.n < MaxOps
    /\ LET r == unpack_data(cur, n)
       IN /\ cur' = r.p
          /\ last' = Called("unpack_data", r.ret, <<>>, -1)
    /\ UNCHANGED svars

call_unpack_u16 ==
    /\ last.n < MaxOps
    /\ LET r == unpack_u16(cur)
       IN /\ cur' = r.p
          /\ last' = Called("unpack_u16", r.ret, <<>>, -1)
    /\ UNCHANGED svars

call_unpack_u32 ==
    /\ last.n < MaxOps
    /\ LET r == unpack_u32(cur)
       IN /\ cur' = r.p
          /\ last' = Called("unpack_u32", r.ret, <<>>, -1)
    /\ UNCHANGED svars

call_unpack_inaddr ==
    /\ last.n < MaxOps
    /\ LET r == unpack_inaddr(cur)
       IN /\ cur' = r.p
          /\ last' = Called("unpack_inaddr", r.ret, <<>>, -1)
    /\ UNCHANGED svars

call_unpack_in6addr ==
    /\ last.n < MaxOps
    /\ LET r == unpack_in6addr(cur)
       IN /\ cur' = r.p
          /\ last' = Called("unpack_in6addr", r.ret, <<>>, -1)
    /\ UNCHANGED svars

call_unpack_dname ==
    /\ last.n < MaxOps
    /\ LET r == unpack_dname(cur, MAXDNAME)
       IN /\ cur' = r.p
          /\ last' = Called("unpack_dname", r.ret, r.jumps, -1)
    /\ UNCHANGED svars

call_unpack_header ==
    /\ last.n < MaxOps
    /\ LET r == unpack_header(cur)
       IN /\ cur' = r.p
          /\ last' = Called("unpack_header", r.ret, <<>>, -1)
    /\ UNCHANGED svars

call_unpack_query ==
    /\ last.n < MaxOps
    /\ LET r == unpack_query(cur)
       IN /\ cur' = r.p
          /\ last' = Called("unpack_query", r.ret, <<>>, -1)
    /\ UNCHANGED svars

call_unpack_rr ==
    /\ last.n < MaxOps
    /\ LET r == unpack_rr(cur)
       IN /\ cur' = r.p
          /\ last' = Called("unpack_rr", r.ret, <<>>, r.save_offset)
    /\ UNCHANGED svars

DecNext ==
    \/ \E n \in {1, 3} : call_unpack_data(n)
    \/ call_unpack_u16
    \/ call_unpack_u32
    \/ call_unpack_inaddr
    \/ call_unpack_in6addr
    \/ call_unpack_dname
    \/ call_unpack_header
    \/ call_unpack_query
    \/ call_unpack_rr

DecSpec == DecInit /\ [][DecNext]_vars
(***************************************************************************)
(* Properties.                                                             *)
(***************************************************************************)
PtrTypes == {IMSG_MTA_DNS_PTR, IMSG_SMTP_DNS_PTR}
FanoutTypes == {IMSG_MTA_DNS_HOST, IMSG_MTA_DNS_MX}

\* the positions of the messages of out[r] with one of the types
Positions(r, types) == {j \in 1..Len(out[r]) : out[r][j].type \in types}

\* the terminal messages of request r: DNS_HOST_END for HOST and MX, the
\* reply carrying the request's own tag for PTR and MX_PREFERENCE
Terminals(r) ==
    Positions(r, IF session[r].type \in FanoutTypes
                 THEN {IMSG_MTA_DNS_HOST_END}
                 ELSE {session[r].type})

\* every resolver query submitted for request r has completed
Quiescent(r) ==
    /\ session[r].mem # "none"
    /\ pending[r] = "none"
    /\ \A i \in 1..Len(lookups[r]) : lookups[r][i].done

\* C1: once every resolver query submitted for a request has completed,
\* exactly one terminal message has been emitted for it and its session is
\* freed, whatever the resolver returned.
C1_OneTerminalAndFreed ==
    \A r \in Reqs :
        Quiescent(r) =>
            /\ Cardinality(Terminals(r)) = 1
            /\ session[r].mem = "freed"

\* C2: in the messages of a request no DNS_HOST address message and no second
\* DNS_HOST_END follows a DNS_HOST_END.
C2_NothingAfterHostEnd ==
    \A r \in Reqs :
        \A i, j \in 1..Len(out[r]) :
            (i < j /\ out[r][i].type = IMSG_MTA_DNS_HOST_END)
                => out[r][j].type
                       \notin {IMSG_MTA_DNS_HOST, IMSG_MTA_DNS_HOST_END}

\* a fan-out of two sub-lookups has completed, with addresses before the
\* terminator
C2_Witness ==
    \E r \in Reqs :
        /\ session[r].type = IMSG_MTA_DNS_MX
        /\ Len(lookups[r]) = 2
        /\ Quiescent(r)
        /\ Cardinality(Positions(r, {IMSG_MTA_DNS_HOST})) >= 2
        /\ out[r][Len(out[r])].type = IMSG_MTA_DNS_HOST_END

\* the MX records of the answer section of response k, in order
MxRecords(k) == SelectSeq(Responses[k].answers, LAMBDA rr : rr.type = T_MX)

\* the sub-lookups allocated for request r as (host, preference) pairs
Spawned(r) ==
    [i \in 1..Len(lookups[r]) |->
        [host |-> lookups[r][i].host, preference |-> lookups[r][i].preference]]

\* an MX query of request r completed, without a terminating resolver
\* error, with the complete response k
MxCompletedWith(r, k) ==
    /\ session[r].type = IMSG_MTA_DNS_MX
    /\ hist[r].resp = k
    /\ WellFormed(k)

\* C3: after the MX completion decoded a complete response with N MX records
\* the session has exactly N sub-lookups, one per MX record with its exchange
\* and preference, and with N = 0 exactly one sub-lookup of the original
\* domain name with preference 0.
C3_OneLookupPerMx ==
    \A r \in Reqs : \A k \in RespIds :
        MxCompletedWith(r, k) =>
            IF Len(MxRecords(k)) > 0
            THEN Spawned(r) =
                    [i \in 1..Len(MxRecords(k)) |->
                        [host |-> MxRecords(k)[i].host,
                         preference |-> MxRecords(k)[i].preference]]
            ELSE Spawned(r) =
                    <<[host |-> LookupHostName(session[r].name),
                       preference |-> 0]>>

\* a response with an A record, a CNAME record and one MX record was
\* decoded and gave the single sub-lookup of the MX record
C3_Witness ==
    \E r \in Reqs :
        /\ MxCompletedWith(r, 3)
        /\ Len(lookups[r]) = 1
        /\ lookups[r][1].preference = 5

\* the number of DNS_HOST messages among the first j of request r
HostsBefore(r, j) ==
    Cardinality({i \in Positions(r, {IMSG_MTA_DNS_HOST}) : i < j})

\* request r took the address-literal short-circuit of dns_imsg
LiteralPath(r) ==
    /\ session[r].type = IMSG_MTA_DNS_MX
    /\ session[r].mem # "none"
    /\ hist[r].submit = "none"

\* C4 as stated: the status of every DNS_HOST_END is OK iff the session's
\* mxfound is greater than zero.
C4_EndOkIffMxfound ==
    \A r \in Reqs :
        \A j \in Positions(r, {IMSG_MTA_DNS_HOST_END}) :
            (out[r][j].status = DNS_OK) <=> (session[r].mxfound > 0)

\* C4 amended: the status of every DNS_HOST_END is OK iff at least one
\* DNS_HOST address message of the request precedes it; mxfound is the
\* number of those messages except on the address-literal short-circuit,
\* which emits its address and OK with mxfound left at zero.
C4_EndOkIffAddressEmitted ==
    \A r \in Reqs :
        \A j \in Positions(r, {IMSG_MTA_DNS_HOST_END}) :
            /\ (out[r][j].status = DNS_OK) <=> (HostsBefore(r, j) > 0)
            /\ IF LiteralPath(r)
               THEN session[r].mxfound = 0
               ELSE session[r].mxfound = HostsBefore(r, j)

\* the address-literal short-circuit has emitted its address and OK while
\* mxfound is still zero
C4_Witness ==
    \E r \in Reqs :
        /\ LiteralPath(r)
        /\ out[r][Len(out[r])] = MsgHostEnd(r, DNS_OK)
        /\ session[r].mxfound = 0

\* the address literals of the model with the address each denotes, and the
\* bracketed strings that denote none
LiteralAddress ==
    [d \in {LitV4, LitV6, LitV6lower} |-> IF d = LitV4 THEN NumV4 ELSE NumV6]
NotLiterals == {BrX, BrOpen, BrV6v4}

\* C5: a DNS_MX request for an address literal submits no resolver query,
\* emits one DNS_HOST with the literal's address and preference -1 followed
\* by DNS_HOST_END with OK, and frees the session; a bracketed string that
\* is no literal is submitted as an MX query under the original string.
C5_LiteralShortCircuit ==
    \A r \in Reqs :
        (session[r].type = IMSG_MTA_DNS_MX /\ session[r].mem # "none") =>
            /\ session[r].name \in DOMAIN LiteralAddress =>
                   /\ hist[r].submit = "none"
                   /\ pending[r] = "none"
                   /\ lookups[r] = <<>>
                   /\ out[r] = <<MsgHost(r, LiteralAddress[session[r].name], -1),
                                 MsgHostEnd(r, DNS_OK)>>
                   /\ session[r].mem = "freed"
            /\ session[r].name \in NotLiterals =>
                   /\ hist[r].submit \in {"res_query_async", "failed"}
                   /\ hist[r].qname = session[r].name
                   /\ Positions(r, {IMSG_MTA_DNS_HOST}) # {}
                          => \A j \in Positions(r, {IMSG_MTA_DNS_HOST}) :
                                 out[r][j].preference # -1

\* the literal with the lower-case prefix was short-circuited
C5_Witness ==
    \E r \in Reqs :
        /\ session[r].type = IMSG_MTA_DNS_MX
        /\ session[r].name = LitV6lower
        /\ Len(out[r]) = 2
        /\ session[r].mem = "freed"

\* the MX query of request r of the given type completed with a resolver
\* error other than the ones listed
CompletedWithError(r, type, except) ==
    /\ session[r].type = type
    /\ hist[r].submit = "res_query_async"
    /\ pending[r] = "none"
    /\ hist[r].h_errno \notin ({NETDB_SUCCESS} \cup except)

\* C6: an MX completion with a resolver error other than NO_DATA ends the
\* request with a single DNS_HOST_END carrying NoName for NXDOMAIN, else
\* Invalid for NO_RECOVERY, else Retry, with no address message and no
\* sub-lookup; with NO_DATA the request gets the one fallback sub-lookup.
C6_MxErrorStatus ==
    \A r \in Reqs :
        /\ CompletedWithError(r, IMSG_MTA_DNS_MX, {NO_DATA}) =>
               /\ out[r] =
                      <<MsgHostEnd(r,
                            IF hist[r].rcode = NXDOMAIN THEN DNS_ENONAME
                            ELSE IF hist[r].h_errno = NO_RECOVERY THEN DNS_EINVAL
                            ELSE DNS_RETRY)>>
               /\ lookups[r] = <<>>
               /\ session[r].mem = "freed"
        /\ (session[r].type = IMSG_MTA_DNS_MX /\ hist[r].h_errno = NO_DATA) =>
               /\ Spawned(r) = <<[host |-> LookupHostName(session[r].name),
                                  preference |-> 0]>>
               /\ \A j \in Positions(r, {IMSG_MTA_DNS_HOST_END}) :
                      out[r][j].status \in {DNS_OK, DNS_ENOTFOUND}

\* an MX completion reported NO_RECOVERY without NXDOMAIN
C6_Witness ==
    \E r \in Reqs :
        /\ CompletedWithError(r, IMSG_MTA_DNS_MX, {NO_DATA})
        /\ hist[r].h_errno = NO_RECOVERY
        /\ hist[r].rcode # NXDOMAIN
        /\ out[r] = <<MsgHostEnd(r, DNS_EINVAL)>>

\* C7: a request whose resolver query could not be submitted has exactly one
\* message, its terminal message with status Invalid, and a freed session.
C7_SubmitFailureInvalid ==
    \A r \in Reqs :
        hist[r].submit = "failed" =>
            /\ Len(out[r]) = 1
            /\ Terminals(r) = {1}
            /\ out[r][1].status = DNS_EINVAL
            /\ session[r].mem = "freed"

\* equality of two names up to ASCII case
SameName(a, b) ==
    [i \in 1..Len(a) |-> ToLower(a[i])] = [i \in 1..Len(b) |-> ToLower(b[i])]

\* the positions of the MX records of response k whose exchange is name
Matches(k, name) ==
    {i \in 1..Len(MxRecords(k)) : SameName(MxRecords(k)[i].host, name)}

\* the MX preference query of request r succeeded with the complete
\* response k
MxPrefCompletedWith(r, k) ==
    /\ session[r].type = IMSG_MTA_DNS_MX_PREFERENCE
    /\ hist[r].submit = "res_query_async"
    /\ pending[r] = "none"
    /\ hist[r].h_errno = NETDB_SUCCESS
    /\ hist[r].resp = k
    /\ WellFormed(k)

\* C8: a successful MX preference query is answered by exactly one reply:
\* OK with the preference of the first MX record, in answer order, whose
\* exchange equals the candidate up to ASCII case, or NotFound without a
\* preference when no MX record matches.
C8_FirstMatchingPreference ==
    \A r \in Reqs : \A k \in RespIds :
        MxPrefCompletedWith(r, k) =>
            LET m == Matches(k, session[r].name) IN
            out[r] =
                << IF m = {}
                   THEN MsgStatus(IMSG_MTA_DNS_MX_PREFERENCE, r, DNS_ENOTFOUND)
                   ELSE MsgPreference(r, DNS_OK,
                            MxRecords(k)[CHOOSE i \in m : \A j \in m : i <= j]
                                .preference) >>

\* two MX records of the response match the candidate, and the reply carries
\* the preference of the first
C8_Witness ==
    \E r \in Reqs :
        /\ MxPrefCompletedWith(r, 4)
        /\ Cardinality(Matches(4, session[r].name)) = 2
        /\ out[r] = <<MsgPreference(r, DNS_OK, 30)>>

\* C9: an MX preference query that completes with a resolver error is
\* answered by exactly one reply without a preference, with status NoName
\* for NXDOMAIN, else Invalid for NO_RECOVERY or NO_DATA, else Retry.
C9_MxPrefErrorStatus ==
    \A r \in Reqs :
        CompletedWithError(r, IMSG_MTA_DNS_MX_PREFERENCE, {}) =>
            /\ out[r] =
                   <<MsgStatus(IMSG_MTA_DNS_MX_PREFERENCE, r,
                         IF hist[r].rcode = NXDOMAIN THEN DNS_ENONAME
                         ELSE IF hist[r].h_errno \in {NO_RECOVERY, NO_DATA}
                              THEN DNS_EINVAL
                         ELSE DNS_RETRY)>>
            /\ "preference" \notin DOMAIN out[r][1]

\* an MX preference query reported NO_DATA
C9_Witness ==
    \E r \in Reqs :
        /\ CompletedWithError(r, IMSG_MTA_DNS_MX_PREFERENCE, {})
        /\ hist[r].h_errno = NO_DATA
        /\ out[r] = <<MsgStatus(IMSG_MTA_DNS_MX_PREFERENCE, r, DNS_EINVAL)>>

\* C10: a PTR request has no message before its reverse lookup completes and
\* exactly one after: it carries the request's tag and reply tag, and OK
\* with the resolved name when the resolver reports no error, NotFound
\* without a name otherwise; it never gets a DNS_HOST or DNS_HOST_END.
C10_PtrSingleReply ==
    \A r \in Reqs :
        session[r].type \in PtrTypes =>
            /\ pending[r] = "dns_dispatch_ptr" => out[r] = <<>>
            /\ pending[r] = "none" =>
                   /\ out[r] =
                          << IF hist[r].h_errno = 0
                             THEN MsgPtrName(session[r].type, r, DNS_OK,
                                             session[r].name)
                             ELSE MsgStatus(session[r].type, r, DNS_ENOTFOUND) >>
                   /\ hist[r].h_errno = 0 => session[r].name \in PtrNames
                   /\ session[r].mem = "freed"
            /\ lookups[r] = <<>>

\* a reverse lookup of the SMTP side failed and was answered NotFound
C10_Witness ==
    \E r \in Reqs :
        /\ session[r].type = IMSG_SMTP_DNS_PTR
        /\ hist[r].h_errno # 0
        /\ out[r] = <<MsgStatus(IMSG_SMTP_DNS_PTR, r, DNS_ENOTFOUND)>>

\* the answer records of response k that lie wholly within its payload
RECURSIVE WholeRecords(_, _, _)
WholeRecords(k, i, at) ==
    IF i > Len(Responses[k].answers)
    THEN <<>>
    ELSE With(at + Len(EncRR(Responses[k].answers[i], Responses[k].qname)),
              LAMBDA end :
         IF end > Len(EncResponse(Responses[k]))
         THEN <<>>
         ELSE <<Responses[k].answers[i]>> \o WholeRecords(k, i + 1, end))

\* the MX records a walk of response k can extract before the payload
\* ends: those of the whole records after header and question
ExtractableMx(k) ==
    [i \in 1..Len(SelectSeq(
                WholeRecords(k, 1, HFIXEDSZ + Len(EncName(Responses[k].qname)) + 4),
                LAMBDA rr : rr.type = T_MX)) |->
        [host |-> MxRecords(k)[i].host,
         preference |-> MxRecords(k)[i].preference]]

\* the DNS_HOST messages of request r that carry the host and the preference
\* of its sub-lookup i
MsgsOf(r, i) ==
    {j \in Positions(r, {IMSG_MTA_DNS_HOST}) :
        /\ out[r][j].sockaddr.host = lookups[r][i].host
        /\ out[r][j].preference = lookups[r][i].preference}

\* the preference the origin of sub-lookup i of request r prescribes: -1 for
\* a direct host request, the preference of the i-th MX record of the
\* response, 0 for the fallback when the response yields no MX record
OriginPreference(r, i) ==
    IF session[r].type = IMSG_MTA_DNS_HOST
    THEN -1
    ELSE IF ExtractableMx(hist[r].resp) = <<>>
    THEN 0
    ELSE ExtractableMx(hist[r].resp)[i].preference

\* C11: every DNS_HOST message of a request that did not take the literal
\* short-circuit carries the host and preference of a completed sub-lookup,
\* each completed sub-lookup accounts for exactly as many messages as it was
\* given addresses, and a sub-lookup's preference is -1 for a direct host
\* request, the MX record's preference for a lookup spawned from that record
\* and 0 for the fallback.
C11_PreferenceOfLookup ==
    \A r \in Reqs :
        (session[r].mem # "none" /\ ~LiteralPath(r)) =>
            /\ \A j \in Positions(r, {IMSG_MTA_DNS_HOST}) :
                   \E i \in 1..Len(lookups[r]) :
                       lookups[r][i].done /\ j \in MsgsOf(r, i)
            /\ \A i \in 1..Len(lookups[r]) :
                   /\ Cardinality(MsgsOf(r, i)) = lookups[r][i].addrs
                   /\ lookups[r][i].preference = OriginPreference(r, i)

\* the sub-lookups of MX 10 and MX 20 completed in reverse order with one
\* and two addresses: preferences 20, 20, 10 in the order of emission
C11_Witness ==
    \E r \in Reqs :
        /\ session[r].type = IMSG_MTA_DNS_MX
        /\ hist[r].resp = 1
        /\ Quiescent(r)
        /\ Len(out[r]) = 4
        /\ out[r][1].preference = 20
        /\ out[r][2].preference = 20
        /\ out[r][3].preference = 10

\* C14: after the MX completion met a decoder error in a truncated response
\* the session's sub-lookups are those of the MX records extracted before
\* the error, or the single fallback lookup of the original domain with
\* preference 0 when none was extracted.
C14_DecoderErrorWalk ==
    \A r \in Reqs : \A k \in RespIds :
        (/\ session[r].type = IMSG_MTA_DNS_MX
         /\ hist[r].resp = k
         /\ ~WellFormed(k)) =>
            IF ExtractableMx(k) # <<>>
            THEN Spawned(r) = ExtractableMx(k)
            ELSE Spawned(r) = <<[host |-> LookupHostName(session[r].name),
                                 preference |-> 0]>>

\* C18: a freed session has refcount zero and its terminal message in the
\* output, and a step that takes the refcount from a positive value to zero
\* frees the session and emits the DNS_HOST_END in that same step.
C18_FreedAtZeroAfterTerminal ==
    /\ [](\A r \in Reqs :
             session[r].mem = "freed" =>
                 /\ session[r].refcount = 0
                 /\ Terminals(r) # {})
    /\ [][\A r \in Reqs :
             (session[r].refcount > 0 /\ session'[r].refcount = 0) =>
                 /\ session[r].mem = "live"
                 /\ session'[r].mem = "freed"
                 /\ Len(out'[r]) > Len(out[r])
                 /\ out'[r][Len(out'[r])].type = IMSG_MTA_DNS_HOST_END]_vars

\* a fan-out of two sub-lookups that found no address has ended: the
\* session is freed after its NotFound terminator
C18_Witness ==
    \E r \in Reqs :
        /\ session[r].mem = "freed"
        /\ Len(lookups[r]) = 2
        /\ session[r].refcount = 0
        /\ out[r] = <<MsgHostEnd(r, DNS_ENOTFOUND)>>

\* the sub-lookups of request r that were submitted and have not completed
Outstanding(r) == {i \in 1..Len(lookups[r]) : ~lookups[r][i].done}

\* C19: the refcount of a session is never negative, the refcount of a live
\* session is the number of its sub-lookups submitted and not yet completed,
\* and a freed session has no sub-lookup whose completion is still to run.
C19_RefcountIsOutstanding ==
    \A r \in Reqs :
        /\ session[r].refcount >= 0
        /\ session[r].mem = "live" =>
               session[r].refcount = Cardinality(Outstanding(r))
        /\ session[r].mem = "freed" => Outstanding(r) = {}

\* one of two sub-lookups has completed and the session is live with
\* refcount 1
C19_Witness ==
    \E r \in Reqs :
        /\ session[r].mem = "live"
        /\ Len(lookups[r]) = 2
        /\ Cardinality(Outstanding(r)) = 1
        /\ session[r].refcount = 1

\* the number of times message m occurs in the output of request r
CountIn(r, m) == Cardinality({j \in 1..Len(out[r]) : out[r][j] = m})

\* the addresses the first i sub-lookups of request r were given
RECURSIVE SumAddrs(_, _)
SumAddrs(r, i) == IF i = 0 THEN 0 ELSE lookups[r][i].addrs + SumAddrs(r, i - 1)

\* C20: when every sub-lookup of a DNS_MX request has completed, its output
\* is determined by the MX set and the result of each sub-lookup alone: one
\* DNS_HOST message for each address of each sub-lookup with that lookup's
\* preference, no other DNS_HOST message, and last a single DNS_HOST_END
\* with OK iff some sub-lookup was given an address; the order in which the
\* completions ran shows only in the order of the DNS_HOST messages.
C20_OutputOfResultsOnly ==
    \A r \in Reqs :
        (/\ session[r].type = IMSG_MTA_DNS_MX
         /\ Len(lookups[r]) > 0
         /\ Quiescent(r)) =>
            /\ \A i \in 1..Len(lookups[r]) : \A k \in 1..MaxAddrs :
                   CountIn(r, MsgHost(r, [host |-> lookups[r][i].host, n |-> k],
                                      lookups[r][i].preference))
                       = IF k <= lookups[r][i].addrs THEN 1 ELSE 0
            /\ Cardinality(Positions(r, {IMSG_MTA_DNS_HOST}))
                   = SumAddrs(r, Len(lookups[r]))
            /\ Positions(r, {IMSG_MTA_DNS_HOST_END}) = {Len(out[r])}
            /\ out[r][Len(out[r])].status =
                   IF SumAddrs(r, Len(lookups[r])) > 0
                   THEN DNS_OK ELSE DNS_ENOTFOUND

\* the second sub-lookup completed first with an address and the first one
\* completed last with none: the terminator is OK all the same
C20_Witness ==
    \E r \in Reqs :
        /\ session[r].type = IMSG_MTA_DNS_MX
        /\ hist[r].resp = 4
        /\ Quiescent(r)
        /\ lookups[r][1].addrs = 0
        /\ lookups[r][2].addrs = 1
        /\ session[r].error # 0
        /\ out[r] = <<MsgHost(r, [host |-> HostB, n |-> 1], 40),
                      MsgHostEnd(r, DNS_OK)>>

(***************************************************************************)
(* Properties of the decoder, stated on the cursor cur and the record last *)
(* of the call that produced it.                                           *)
(***************************************************************************)
\* byte i of the payload under cur
CurByte(i) == ByteAt(cur.buf, cur.len, cur.junk, i)

\* C12: every index of the payload read through the cursor, by unpack_data
\* or by dname_expand, is less than the payload's length.
C12_ReadsWithinBuffer == cur.hi < cur.len

\* rdlength of the record whose body starts at save_offset: the two bytes
\* before the body
WireRdlen(save_offset) ==
    256 * CurByte(save_offset - 2) + CurByte(save_offset - 1)

\* C13: a call of unpack_rr on a cursor without error returns 0 only with
\* the cursor advanced by exactly rdlength from save_offset and no error
\* set; otherwise it returns -1 and the cursor's error is set.
C13_RrAdvanceIsRdlen ==
    (last.op = "unpack_rr" /\ last.before.err = NoErr) =>
        IF last.ret = 0
        THEN /\ last.save_offset >= 0
             /\ cur.offset - last.save_offset = WireRdlen(last.save_offset)
             /\ cur.err = NoErr
        ELSE /\ last.ret = -1
             /\ cur.err # NoErr

\* unpack_rr accepted the MX record whose body of 7 bytes holds a
\* preference and a name
C13_Witness ==
    /\ last.op = "unpack_rr"
    /\ last.ret = 0
    /\ cur.buf = WireBuffers[2]
    /\ last.save_offset = 13
    /\ cur.offset = 20

\* from C index at, the index of the first pointer behind the labels there,
\* -1 if the labels end or leave the payload first
RECURSIVE SegmentPointer(_)
SegmentPointer(at) ==
    IF at >= cur.len \/ CurByte(at) = 0
    THEN -1
    ELSE IF CurByte(at) >= 192
    THEN at
    ELSE SegmentPointer(at + CurByte(at) + 1)

\* the start of the segment a call of unpack_dname expanded last: the
\* target of the last pointer followed, or where the name begins
LastStart ==
    IF last.jumps = <<>>
    THEN last.before.offset
    ELSE last.jumps[Len(last.jumps)].to

\* C15: in a call of unpack_dname the target of every pointer followed is
\* less than the start of the segment in which it was read (the name's
\* offset, then the previous target), so the targets decrease strictly; and
\* a complete pointer in the last segment whose target is not less than that
\* segment's start makes the call fail with "bad domain name".
C15_PointerTargetsDecrease ==
    (last.op = "unpack_dname" /\ last.before.err = NoErr) =>
        /\ \A i \in 1..Len(last.jumps) :
               last.jumps[i].to <
                   (IF i = 1 THEN last.before.offset ELSE last.jumps[i - 1].to)
        /\ LET q == SegmentPointer(LastStart)
           IN (/\ q # -1
               /\ q + 2 <= cur.len
               /\ 256 * (CurByte(q) - 192) + CurByte(q + 1) >= LastStart)
                  => /\ last.ret = -1
                     /\ cur.err = "bad domain name"
                     /\ cur.offset = last.before.offset

\* a pointer back to 0 was followed and the forward pointer found there was
\* rejected
C15_Witness ==
    /\ last.op = "unpack_dname"
    /\ cur.buf = WireBuffers[18]
    /\ last.jumps = <<[at |-> 3, to |-> 0]>>
    /\ last.ret = -1
    /\ cur.err = "bad domain name"

\* from C index at, the index just past the zero byte that ends the labels
RECURSIVE PastZero(_)
PastZero(at) ==
    IF CurByte(at) = 0 THEN at + 1 ELSE PastZero(at + CurByte(at) + 1)

\* C16: a successful call of unpack_dname leaves the offset two bytes past
\* the first pointer it followed, or, without a pointer, just past the zero
\* byte that ends the name.
C16_NewOffset ==
    (last.op = "unpack_dname" /\ last.before.err = NoErr /\ last.ret = 0) =>
        cur.offset = IF last.jumps # <<>>
                     THEN last.jumps[1].at + 2
                     ELSE PastZero(last.before.offset)

\* C17: a decode call on a cursor whose error is set returns -1 and leaves
\* the cursor's offset and error as they were.
C17_ErrorLatches ==
    (last.op # "none" /\ last.before.err # NoErr) =>
        /\ last.ret = -1
        /\ cur.offset = last.before.offset
        /\ cur.err = last.before.err

\* unpack_dname was called on a cursor in error that stands on a valid name
C17_Witness ==
    /\ last.op = "unpack_dname"
    /\ last.before.err = "too short"
    /\ cur.buf = <<1, 120, 0>>
    /\ last.before.offset = 0
    /\ last.ret = -1

====
